---------------------------- MODULE Spec2Model ----------------------------
(***************************************************************************)
(* The V1 API client of ai-cats-sdk (src/src/api/v1.api.ts).               *)
(*                                                                         *)
(* Representation.                                                         *)
(*  - A JavaScript string is the sequence of its lexemes.  Every URL       *)
(*    delimiter (? & = # + % and the space) is a lexeme of its own; a run  *)
(*    of other characters is one lexeme.  Concatenation and template       *)
(*    literals are \o.  The empty string is << >>.                         *)
(*  - An optional value (undefined or a value) is << >> or <<v>>.          *)
(*  - A JSON value, an image result and a thrown error are records tagged  *)
(*    by the field t.                                                      *)
(*  - v1.api.ts holds every operation twice (lines 100-252 and 308-454).   *)
(*    random, getById and getThemes differ between the two and are         *)
(*    modelled twice (random_2, getById_2, getThemes_2); the other five    *)
(*    second definitions repeat the first ones verbatim.                   *)
(***************************************************************************)
EXTENDS Integers, Sequences, FiniteSets, TLC

VARIABLES
    calls,      \* the calls issued so far, in the order of their invocation
    callsLeft   \* how many more calls the application will issue

vars == <<calls, callsLeft>>

---------------------------------------------------------------------------
(* Bounds *)

MaxCalls == 2       \* calls issued in Spec
BuildCalls == 1     \* calls issued in SpecBuild
MaxBytes == 3       \* length of an image body in SpecBody
AnswerCalls == 1    \* calls issued in SpecAnswered

---------------------------------------------------------------------------
(* Optional values and JavaScript truthiness *)

Undefined == << >>

Some(v) == <<v>>

TruthyString(m) == m # Undefined /\ m[1] # << >>

TruthyNumber(m) == m # Undefined /\ m[1] # 0

TruthyBoolean(m) == m # Undefined /\ m[1]

\* options?.field : undefined when the bundle itself is undefined
Field(options, f) == IF options = Undefined THEN Undefined ELSE options[1][f]

---------------------------------------------------------------------------
(* Enumerations and constants *)

ApiUrl == <<"https://api.ai-cats.net/v1">>

Large == <<"1024">>

Size == {<<"1024">>, <<"512">>, <<"256">>, <<"128">>, <<"64">>, <<"32">>, <<"16">>}

Theme == {<<"Default">>, <<"Spring">>, <<"Summer">>, <<"Autumn">>, <<"Winter">>,
          <<"Halloween">>, <<"Xmas">>, <<"NewYear">>, <<"Easter">>}

ResponseType == {"blob", "arrayBuffer", "base64", "dataUrl"}

---------------------------------------------------------------------------
(* Number.prototype.toString of an integer *)

Digit == <<"0", "1", "2", "3", "4", "5", "6", "7", "8", "9">>

RECURSIVE NatToString(_)
NatToString(n) ==
    IF n < 10 THEN <<Digit[n + 1]>>
    ELSE NatToString(n \div 10) \o <<Digit[(n % 10) + 1]>>

NumberToString(n) == IF n < 0 THEN <<"-">> \o NatToString(-n) ELSE NatToString(n)

---------------------------------------------------------------------------
(* URLSearchParams: an ordered list of <<name, value>> pairs *)

NewURLSearchParams == << >>

HasParam(params, name) == \E i \in 1..Len(params) : params[i][1] = name

FirstParam(params, name) == CHOOSE i \in 1..Len(params) :
    /\ params[i][1] = name
    /\ \A j \in 1..(i - 1) : params[j][1] # name

RECURSIVE DropLater(_, _, _)
DropLater(params, name, first) ==
    IF params = << >> THEN << >>
    ELSE LET n == Len(params)
             front == DropLater(SubSeq(params, 1, n - 1), name, first)
         IN  IF params[n][1] = name /\ n # first THEN front
             ELSE front \o <<params[n]>>

\* params.set(name, value): the first pair of that name takes the value and
\* any later pair of that name is removed; with no such pair, one is appended.
ParamsSet(params, name, value) ==
    IF HasParam(params, name)
    THEN LET first == FirstParam(params, name)
         IN  DropLater([params EXCEPT ![first] = <<name, value>>], name, first)
    ELSE Append(params, <<name, value>>)

\* application/x-www-form-urlencoded: the byte serializer for one lexeme
EncodeLexeme(x) ==
    CASE x = " " -> "+"
      [] x = "&" -> "%26"
      [] x = "=" -> "%3D"
      [] x = "?" -> "%3F"
      [] x = "#" -> "%23"
      [] x = "+" -> "%2B"
      [] x = "%" -> "%25"
      [] OTHER   -> x

UrlEncode(s) == [i \in 1..Len(s) |-> EncodeLexeme(s[i])]

RECURSIVE ParamsToString(_)
ParamsToString(params) ==
    IF params = << >> THEN << >>
    ELSE LET n == Len(params)
             pair == UrlEncode(params[n][1]) \o <<"=">> \o UrlEncode(params[n][2])
         IN  IF n = 1 THEN pair
             ELSE ParamsToString(SubSeq(params, 1, n - 1)) \o <<"&">> \o pair

\* const query = params.toString() ? `?${params}` : '';
QueryOf(params) ==
    IF ParamsToString(params) # << >> THEN <<"?">> \o ParamsToString(params) ELSE << >>

---------------------------------------------------------------------------
(* Request URLs: the string each operation hands to fetch *)

\* random, lines 101-107
randomUrl(options, rnd) ==
    LET p0 == NewURLSearchParams
        p1 == IF TruthyString(Field(options, "size"))
              THEN ParamsSet(p0, <<"size">>, Field(options, "size")[1]) ELSE p0
        p2 == IF TruthyString(Field(options, "theme"))
              THEN ParamsSet(p1, <<"theme">>, Field(options, "theme")[1]) ELSE p1
        p3 == ParamsSet(p2, <<"rnd">>, rnd)
    IN  ApiUrl \o <<"/cat">> \o QueryOf(p3)

\* random (second definition), lines 309-314
random_2Url(options) ==
    LET p0 == NewURLSearchParams
        p1 == IF TruthyString(Field(options, "size"))
              THEN ParamsSet(p0, <<"size">>, Field(options, "size")[1]) ELSE p0
        p2 == IF TruthyString(Field(options, "theme"))
              THEN ParamsSet(p1, <<"theme">>, Field(options, "theme")[1]) ELSE p1
    IN  ApiUrl \o <<"/cat">> \o QueryOf(p2)

\* a plausible slip: the requested size is not passed on
getByIdUrl_AlwaysLarge(id, options) ==
    ApiUrl \o <<"/cat/">> \o id \o <<"?", "size", "=">> \o Large

\* getById, lines 128-129: options?.size ?? Size.Large
getByIdUrl(id, options) ==
    LET size == IF Field(options, "size") # Undefined
                THEN Field(options, "size")[1] ELSE Large
    IN  ApiUrl \o <<"/cat/">> \o id \o <<"?", "size", "=">> \o size

\* getById (second definition), lines 330-331: size: Size = Size.Large
getById_2Url(id, sizeArg) ==
    LET size == IF sizeArg # Undefined THEN sizeArg[1] ELSE Large
    IN  ApiUrl \o <<"/cat/">> \o id \o <<"?", "size", "=">> \o size

getInfoUrl(id) == ApiUrl \o <<"/cat/info/">> \o id

\* options: SearchOptions = {}
EmptySearchOptions ==
    [query |-> Undefined, limit |-> Undefined, from |-> Undefined,
     descending |-> Undefined, theme |-> Undefined, size |-> Undefined]

\* a plausible slip: the fields are set in the order size, theme, query,
\* limit, from, descending
searchUrl_SizeFirst(optionsArg) ==
    LET o  == IF optionsArg = Undefined THEN EmptySearchOptions ELSE optionsArg[1]
        p0 == NewURLSearchParams
        p1 == IF TruthyString(o.size)
              THEN ParamsSet(p0, <<"size">>, o.size[1]) ELSE p0
        p2 == IF TruthyString(o.theme)
              THEN ParamsSet(p1, <<"theme">>, o.theme[1]) ELSE p1
        p3 == IF TruthyString(o.query)
              THEN ParamsSet(p2, <<"query">>, o.query[1]) ELSE p2
        p4 == IF TruthyNumber(o.limit)
              THEN ParamsSet(p3, <<"limit">>, NumberToString(o.limit[1])) ELSE p3
        p5 == IF TruthyString(o.from)
              THEN ParamsSet(p4, <<"from">>, o.from[1]) ELSE p4
        p6 == IF TruthyBoolean(o.descending)
              THEN ParamsSet(p5, <<"descending">>, <<"true">>) ELSE p5
    IN  ApiUrl \o <<"/cat/search">> \o QueryOf(p6)

\* a plausible slip: presence is tested instead of truthiness
searchUrl_PresenceTest(optionsArg) ==
    LET o  == IF optionsArg = Undefined THEN EmptySearchOptions ELSE optionsArg[1]
        p0 == NewURLSearchParams
        p1 == IF o.query # Undefined
              THEN ParamsSet(p0, <<"query">>, o.query[1]) ELSE p0
        p2 == IF o.limit # Undefined
              THEN ParamsSet(p1, <<"limit">>, NumberToString(o.limit[1])) ELSE p1
        p3 == IF o.from # Undefined
              THEN ParamsSet(p2, <<"from">>, o.from[1]) ELSE p2
        p4 == IF TruthyBoolean(o.descending)
              THEN ParamsSet(p3, <<"descending">>, <<"true">>) ELSE p3
        p5 == IF TruthyString(o.theme)
              THEN ParamsSet(p4, <<"theme">>, o.theme[1]) ELSE p4
        p6 == IF TruthyString(o.size)
              THEN ParamsSet(p5, <<"size">>, o.size[1]) ELSE p5
    IN  ApiUrl \o <<"/cat/search">> \o QueryOf(p6)

\* a plausible slip: descending is written whenever it is given
searchUrl_DescendingGiven(optionsArg) ==
    LET o  == IF optionsArg = Undefined THEN EmptySearchOptions ELSE optionsArg[1]
        p0 == NewURLSearchParams
        p1 == IF TruthyString(o.query)
              THEN ParamsSet(p0, <<"query">>, o.query[1]) ELSE p0
        p2 == IF TruthyNumber(o.limit)
              THEN ParamsSet(p1, <<"limit">>, NumberToString(o.limit[1])) ELSE p1
        p3 == IF TruthyString(o.from)
              THEN ParamsSet(p2, <<"from">>, o.from[1]) ELSE p2
        p4 == IF o.descending # Undefined
              THEN ParamsSet(p3, <<"descending">>,
                             IF o.descending[1] THEN <<"true">> ELSE <<"false">>)
              ELSE p3
        p5 == IF TruthyString(o.theme)
              THEN ParamsSet(p4, <<"theme">>, o.theme[1]) ELSE p4
        p6 == IF TruthyString(o.size)
              THEN ParamsSet(p5, <<"size">>, o.size[1]) ELSE p5
    IN  ApiUrl \o <<"/cat/search">> \o QueryOf(p6)

\* search, lines 160-170
searchUrl(optionsArg) ==
    LET o  == IF optionsArg = Undefined THEN EmptySearchOptions ELSE optionsArg[1]
        p0 == NewURLSearchParams
        p1 == IF TruthyString(o.query)
              THEN ParamsSet(p0, <<"query">>, o.query[1]) ELSE p0
        p2 == IF TruthyNumber(o.limit)
              THEN ParamsSet(p1, <<"limit">>, NumberToString(o.limit[1])) ELSE p1
        p3 == IF TruthyString(o.from)
              THEN ParamsSet(p2, <<"from">>, o.from[1]) ELSE p2
        p4 == IF TruthyBoolean(o.descending)
              THEN ParamsSet(p3, <<"descending">>, <<"true">>) ELSE p3
        p5 == IF TruthyString(o.theme)
              THEN ParamsSet(p4, <<"theme">>, o.theme[1]) ELSE p4
        p6 == IF TruthyString(o.size)
              THEN ParamsSet(p5, <<"size">>, o.size[1]) ELSE p5
    IN  ApiUrl \o <<"/cat/search">> \o QueryOf(p6)

\* getSearchCompletion, lines 203-213
getSearchCompletionUrl(optionsArg) ==
    LET o  == IF optionsArg = Undefined THEN EmptySearchOptions ELSE optionsArg[1]
        p0 == NewURLSearchParams
        p1 == IF TruthyString(o.query)
              THEN ParamsSet(p0, <<"query">>, o.query[1]) ELSE p0
        p2 == IF TruthyNumber(o.limit)
              THEN ParamsSet(p1, <<"limit">>, NumberToString(o.limit[1])) ELSE p1
        p3 == IF TruthyString(o.from)
              THEN ParamsSet(p2, <<"from">>, o.from[1]) ELSE p2
        p4 == IF TruthyBoolean(o.descending)
              THEN ParamsSet(p3, <<"descending">>, <<"true">>) ELSE p3
        p5 == IF TruthyString(o.theme)
              THEN ParamsSet(p4, <<"theme">>, o.theme[1]) ELSE p4
        p6 == IF TruthyString(o.size)
              THEN ParamsSet(p5, <<"size">>, o.size[1]) ELSE p5
    IN  ApiUrl \o <<"/cat/search-completion">> \o QueryOf(p6)

\* getSimilar, lines 186-191
getSimilarUrl(id, options) ==
    LET p0 == NewURLSearchParams
        p1 == IF TruthyNumber(Field(options, "limit"))
              THEN ParamsSet(p0, <<"limit">>, NumberToString(Field(options, "limit")[1]))
              ELSE p0
        p2 == IF TruthyString(Field(options, "size"))
              THEN ParamsSet(p1, <<"size">>, Field(options, "size")[1]) ELSE p1
    IN  ApiUrl \o <<"/cat/similar/">> \o id \o QueryOf(p2)

getThemesUrl == ApiUrl \o <<"/cat/theme-list">>

getThemes_2Url == ApiUrl \o <<"/cat/themes">>

\* getCount, line 246: theme ? `?theme=${theme}` : ''
getCountUrl(theme) ==
    ApiUrl \o <<"/cat/count">>
           \o (IF TruthyString(theme) THEN <<"?", "theme", "=">> \o theme[1] ELSE << >>)

---------------------------------------------------------------------------
(* Response shaping (image endpoints) *)

\* a plausible slip: the loop stops one byte early (i < bytes.length - 1)
RECURSIVE BinaryString_StopsEarly(_)
BinaryString_StopsEarly(bytes) ==
    IF Len(bytes) <= 1 THEN << >>
    ELSE BinaryString_StopsEarly(SubSeq(bytes, 1, Len(bytes) - 1))
            \o <<bytes[Len(bytes) - 1]>>

\* the loop of lines 28-32: binary += String.fromCharCode(bytes[i]),
\* one code unit per byte, in order
RECURSIVE BinaryString(_)
BinaryString(bytes) ==
    IF bytes = << >> THEN << >>
    ELSE BinaryString(SubSeq(bytes, 1, Len(bytes) - 1)) \o <<bytes[Len(bytes)]>>

Base64Alphabet ==
    <<"A", "B", "C", "D", "E", "F", "G", "H", "I", "J", "K", "L", "M",
      "N", "O", "P", "Q", "R", "S", "T", "U", "V", "W", "X", "Y", "Z",
      "a", "b", "c", "d", "e", "f", "g", "h", "i", "j", "k", "l", "m",
      "n", "o", "p", "q", "r", "s", "t", "u", "v", "w", "x", "y", "z",
      "0", "1", "2", "3", "4", "5", "6", "7", "8", "9", "+", "/">>

Sextet(n) == Base64Alphabet[n + 1]

\* btoa: standard base64 of a string of code units 0..255, '=' padded,
\* one lexeme per output character
RECURSIVE btoa(_)
btoa(binary) ==
    IF Len(binary) = 0 THEN << >>
    ELSE IF Len(binary) = 1 THEN
        <<Sextet(binary[1] \div 4), Sextet((binary[1] % 4) * 16), "=", "=">>
    ELSE IF Len(binary) = 2 THEN
        <<Sextet(binary[1] \div 4),
          Sextet((binary[1] % 4) * 16 + binary[2] \div 16),
          Sextet((binary[2] % 16) * 4), "=">>
    ELSE
        <<Sextet(binary[1] \div 4),
          Sextet((binary[1] % 4) * 16 + binary[2] \div 16),
          Sextet((binary[2] % 16) * 4 + binary[3] \div 64),
          Sextet(binary[3] % 64)>>
        \o btoa(SubSeq(binary, 4, Len(binary)))

ArrayBuffer(bytes) == [t |-> "ArrayBuffer", bytes |-> bytes]

Blob(parts, type) == [t |-> "Blob", parts |-> parts, type |-> type]

String(s) == [t |-> "string", s |-> s]

\* toResponseType(buffer, type = 'blob'), lines 20-47
toResponseType(buffer, type) ==
    CASE type = "arrayBuffer" -> buffer
      [] type = "base64" -> String(btoa(BinaryString(buffer.bytes)))
      [] type = "dataUrl" ->
            String(<<"data:image/jpeg;base64,">> \o btoa(BinaryString(buffer.bytes)))
      [] OTHER -> Blob(<<buffer>>, <<"image/jpeg">>)

---------------------------------------------------------------------------
(* JSON values and errors *)

JsonObject(fields) == [t |-> "object", fields |-> fields]

JsonArray(items) == [t |-> "array", items |-> items]

JsonNumber(n) == [t |-> "number", n |-> n]

JsonString(s) == [t |-> "string", s |-> s]

JsonNull == [t |-> "null"]

JsUndefined == [t |-> "undefined"]

\* a response body that is not JSON text
Malformed == [t |-> "malformed"]

Bytes(b) == [t |-> "bytes", bytes |-> b]

Error(message) == [t |-> "Error", message |-> message]

\* fetch rejects: no response was obtained
NetworkError == [t |-> "TypeError", message |-> <<"fetch failed">>]

\* response.json() rejects on a body that is not JSON
JsonSyntaxError == [t |-> "SyntaxError", message |-> <<"Unexpected token">>]

\* reading a property of null throws
NullPropertyError == [t |-> "TypeError", message |-> <<"Cannot read properties of null">>]

Resolved(value) == [pc |-> "resolved", value |-> value]

Rejected(error) == [pc |-> "rejected", value |-> error]

\* data.name
Property(data, name) ==
    IF data.t = "null" THEN Rejected(NullPropertyError)
    ELSE IF data.t = "object" /\ name \in DOMAIN data.fields THEN Resolved(data.fields[name])
    ELSE Resolved(JsUndefined)

---------------------------------------------------------------------------
(* The three steps of a call: up to the fetch, from the response to the   *)
(* body read, and from the body to the return.                             *)

ImageOps == {"random", "getById"}

\* the call as it stands when fetch(url) has been issued
Fetching(op, def, args, url) ==
    [op |-> op, def |-> def, args |-> args, url |-> url, pc |-> "fetch",
     fetches |-> 1, response |-> Undefined, reads |-> << >>, outcome |-> Undefined]

\* throw new Error(`Error ...: ${response.statusText}`)
StatusError(op, statusText) ==
    CASE op = "random"  -> Error(<<"Error fetching cat image: ">> \o statusText)
      [] op = "getById" -> Error(<<"Error fetching cat image: ">> \o statusText)
      [] op = "getInfo" -> Error(<<"Error fetching cat info: ">> \o statusText)
      [] op = "search"  -> Error(<<"Error searching for cats: ">> \o statusText)
      [] op = "getSimilar" -> Error(<<"Error fetching similar cats: ">> \o statusText)
      [] op = "getSearchCompletion" -> Error(<<"Error fetching completion: ">> \o statusText)
      [] op = "getThemes" -> Error(<<"Error fetching themes: ">> \o statusText)
      [] op = "getCount" -> Error(<<"Error fetching count: ">> \o statusText)

\* response.arrayBuffer() in random and getById, response.json() elsewhere
BodyMethod(op) == IF op \in ImageOps THEN "arrayBuffer" ELSE "json"

\* a plausible slip: the status check is left out and the body is read anyway
OnResponse_NoStatusCheck(c, response) ==
    [c EXCEPT !.response = Some(response), !.pc = "body",
              !.reads = Append(c.reads, BodyMethod(c.op))]

\* a plausible slip: the body read is started before the status is looked at
OnResponse_ReadsBodyFirst(c, response) ==
    IF ~response.ok
    THEN [c EXCEPT !.response = Some(response), !.pc = "rejected",
                   !.reads = Append(c.reads, BodyMethod(c.op)),
                   !.outcome = Some(StatusError(c.op, response.statusText))]
    ELSE [c EXCEPT !.response = Some(response), !.pc = "body",
                   !.reads = Append(c.reads, BodyMethod(c.op))]

\* if (!response.ok) throw ...; otherwise the body read is started
OnResponse(c, response) ==
    IF ~response.ok
    THEN [c EXCEPT !.response = Some(response), !.pc = "rejected",
                   !.outcome = Some(StatusError(c.op, response.statusText))]
    ELSE [c EXCEPT !.response = Some(response), !.pc = "body",
                   !.reads = Append(c.reads, BodyMethod(c.op))]

\* a plausible slip: the raw buffer is the default
ResponseTypeOf_DefaultArrayBuffer(options) ==
    IF Field(options, "responseType") # Undefined
    THEN Field(options, "responseType")[1] ELSE "arrayBuffer"

\* options?.responseType ?? 'blob'
ResponseTypeOf(options) ==
    IF Field(options, "responseType") # Undefined
    THEN Field(options, "responseType")[1] ELSE "blob"

\* a plausible slip: getCount returns the decoded body, not its count
Return_CountWholeBody(c, body) ==
    CASE c.op \in ImageOps /\ c.def = 1 ->
            Resolved(toResponseType(ArrayBuffer(body.bytes), ResponseTypeOf(c.args.options)))
      [] c.op \in ImageOps /\ c.def = 2 ->
            Resolved(Blob(<<ArrayBuffer(body.bytes)>>, <<"image/jpeg">>))
      [] c.op \in {"getInfo", "search", "getSimilar", "getCount"} -> Resolved(body)
      [] c.op = "getSearchCompletion" -> Property(body, "completion")
      [] c.op = "getThemes" -> Property(body, "themes")

\* what the operation returns once the body has been read
Return(c, body) ==
    CASE c.op \in ImageOps /\ c.def = 1 ->
            Resolved(toResponseType(ArrayBuffer(body.bytes), ResponseTypeOf(c.args.options)))
      [] c.op \in ImageOps /\ c.def = 2 ->
            Resolved(Blob(<<ArrayBuffer(body.bytes)>>, <<"image/jpeg">>))
      [] c.op \in {"getInfo", "search", "getSimilar"} -> Resolved(body)
      [] c.op = "getSearchCompletion" -> Property(body, "completion")
      [] c.op = "getThemes" -> Property(body, "themes")
      [] c.op = "getCount" -> Property(body, "count")

OnBody(c) ==
    LET r == Return(c, c.response[1].body)
    IN  [c EXCEPT !.pc = r.pc, !.outcome = Some(r.value)]

OnBodyError(c) == [c EXCEPT !.pc = "rejected", !.outcome = Some(JsonSyntaxError)]

\* a plausible slip: the rejection of fetch is caught and the call returns nothing
OnFetchError_Swallowed(c) == [c EXCEPT !.pc = "resolved", !.outcome = Some(JsUndefined)]

\* await fetch(url) rejects: no handler catches it, the call rejects with it
OnFetchError(c) == [c EXCEPT !.pc = "rejected", !.outcome = Some(NetworkError)]

---------------------------------------------------------------------------
(* Operations: each issues its request and suspends on fetch *)

\* Math.random().toString(): any token, with no guarantee against repeats
MathRandom == {<<"0.25">>, <<"0.75">>}

random(options) ==
    \E rnd \in MathRandom :
        /\ callsLeft > 0
        /\ calls' = Append(calls,
                Fetching("random", 1, [options |-> options], randomUrl(options, rnd)))
        /\ callsLeft' = callsLeft - 1

random_2(options) ==
    /\ callsLeft > 0
    /\ calls' = Append(calls,
            Fetching("random", 2, [options |-> options], random_2Url(options)))
    /\ callsLeft' = callsLeft - 1

getById(id, options) ==
    /\ callsLeft > 0
    /\ calls' = Append(calls,
            Fetching("getById", 1, [id |-> id, options |-> options], getByIdUrl(id, options)))
    /\ callsLeft' = callsLeft - 1

getById_2(id, size) ==
    /\ callsLeft > 0
    /\ calls' = Append(calls,
            Fetching("getById", 2, [id |-> id, size |-> size], getById_2Url(id, size)))
    /\ callsLeft' = callsLeft - 1

getInfo(id) ==
    /\ callsLeft > 0
    /\ calls' = Append(calls,
            Fetching("getInfo", 1, [id |-> id], getInfoUrl(id)))
    /\ callsLeft' = callsLeft - 1

search(options) ==
    /\ callsLeft > 0
    /\ calls' = Append(calls,
            Fetching("search", 1, [options |-> options], searchUrl(options)))
    /\ callsLeft' = callsLeft - 1

getSimilar(id, options) ==
    /\ callsLeft > 0
    /\ calls' = Append(calls,
            Fetching("getSimilar", 1, [id |-> id, options |-> options], getSimilarUrl(id, options)))
    /\ callsLeft' = callsLeft - 1

getSearchCompletion(options) ==
    /\ callsLeft > 0
    /\ calls' = Append(calls,
            Fetching("getSearchCompletion", 1, [options |-> options], getSearchCompletionUrl(options)))
    /\ callsLeft' = callsLeft - 1

getThemes ==
    /\ callsLeft > 0
    /\ calls' = Append(calls,
            Fetching("getThemes", 1, [none |-> Undefined], getThemesUrl))
    /\ callsLeft' = callsLeft - 1

getThemes_2 ==
    /\ callsLeft > 0
    /\ calls' = Append(calls,
            Fetching("getThemes", 2, [none |-> Undefined], getThemes_2Url))
    /\ callsLeft' = callsLeft - 1

getCount(theme) ==
    /\ callsLeft > 0
    /\ calls' = Append(calls,
            Fetching("getCount", 1, [theme |-> theme], getCountUrl(theme)))
    /\ callsLeft' = callsLeft - 1

---------------------------------------------------------------------------
(* Inputs *)

Maybe(S) == {Undefined} \cup {Some(x) : x \in S}

\* ids as the service assigns them
Ids == {<<"a1">>, <<"669de24a-1da1-4fcd-84b1-9e55a43a0e0e">>}

QuerySamples == {<< >>, <<"a", " ", "b", "&", "c", "=", "d">>}

LimitSamples == {0, 25}

FromSamples == {<< >>, <<"a1">>}

ThemeSamples == {<<"Xmas">>}

SizeSamples == {<<"512">>}

AllRandomOptions ==
    Maybe([size : Maybe(Size), theme : Maybe(ThemeSamples), responseType : {Undefined}])

AllGetByIdOptions ==
    Maybe([size : Maybe(Size), responseType : Maybe({"base64"})])

AllSearchOptions ==
    Maybe([query : Maybe(QuerySamples), limit : Maybe(LimitSamples),
           from : Maybe(FromSamples), descending : Maybe(BOOLEAN),
           theme : Maybe(ThemeSamples), size : Maybe(SizeSamples)])

AllSimilarOptions ==
    Maybe([limit : Maybe(LimitSamples), size : Maybe(SizeSamples)])

\* the few bundles drawn where calls run concurrently
RandomOptions ==
    {Undefined,
     Some([size |-> Undefined, theme |-> Some(<<"Xmas">>), responseType |-> Some("base64")])}

FewIds == {<<"a1">>}

\* image bodies: byte sequences of up to n bytes
ByteSamples == {0, 1, 127, 255}

RECURSIVE ByteSeqs(_)
ByteSeqs(n) ==
    IF n = 0 THEN {<< >>}
    ELSE LET shorter == ByteSeqs(n - 1)
         IN  shorter \cup {Append(b, x) : b \in {y \in shorter : Len(y) = n - 1},
                                          x \in ByteSamples}

SearchResults ==
    JsonArray(<<JsonObject([id |-> JsonString(<<"a1">>),
                            url |-> JsonString(<<"https://x/a1.jpg">>)])>>)

CountThemesCompletion ==
    JsonObject([count |-> JsonNumber(42),
                themes |-> JsonArray(<<JsonString(<<"Default">>), JsonString(<<"Xmas">>)>>),
                completion |-> JsonString(<<"orange cat">>)])

JsonBodies ==
    {CountThemesCompletion,
     JsonObject([count |-> JsonNumber(42)]),
     JsonObject([count |-> JsonNumber(0)]),
     JsonObject([themes |-> JsonArray(<< >>)]),
     JsonObject([completion |-> JsonString(<< >>)]),
     JsonObject([id |-> JsonString(<<"a1">>), dateCreated |-> JsonNumber(1724534067),
                 prompt |-> JsonString(<<"In a futuristic space observatory">>),
                 theme |-> JsonString(<<"Default">>)]),
     SearchResults,
     JsonArray(<< >>),
     JsonNumber(7),
     JsonNull,
     Malformed}

FailureTexts == {<<"Not Found">>, << >>}

Ok(body) == [ok |-> TRUE, statusText |-> <<"OK">>, body |-> body]

NotOk(statusText) == [ok |-> FALSE, statusText |-> statusText, body |-> Bytes(<< >>)]

\* the responses drawn where calls run concurrently
Responses(op) ==
    {NotOk(st) : st \in FailureTexts}
    \cup {Ok(b) : b \in IF op \in ImageOps THEN {Bytes(<<255, 216, 255>>)}
                        ELSE {CountThemesCompletion, Malformed}}

---------------------------------------------------------------------------
(* The transport answers *)

\* fetch resolves with a response: the status check runs, then the body read starts
fetchFulfilled ==
    \E i \in 1..Len(calls) : \E response \in Responses(calls[i].op) :
        /\ calls[i].pc = "fetch"
        /\ calls' = [calls EXCEPT ![i] = OnResponse(calls[i], response)]
        /\ UNCHANGED callsLeft

\* a plausible slip: one shared abort signal, so that one failing request
\* fails every request that is still pending
fetchRejected_FailsAllPending ==
    /\ \E i \in 1..Len(calls) : calls[i].pc = "fetch"
    /\ calls' = [k \in 1..Len(calls) |->
                    IF calls[k].pc = "fetch" THEN OnFetchError(calls[k]) ELSE calls[k]]
    /\ UNCHANGED callsLeft

\* fetch rejects: the rejection propagates to the caller
fetchRejected ==
    \E i \in 1..Len(calls) :
        /\ calls[i].pc = "fetch"
        /\ calls' = [calls EXCEPT ![i] = OnFetchError(calls[i])]
        /\ UNCHANGED callsLeft

\* arrayBuffer() or json() resolves: the operation shapes and returns its result
bodyFulfilled ==
    \E i \in 1..Len(calls) :
        /\ calls[i].pc = "body"
        /\ calls[i].response[1].body.t # "malformed"
        /\ calls' = [calls EXCEPT ![i] = OnBody(calls[i])]
        /\ UNCHANGED callsLeft

\* json() rejects on a body that is not JSON
bodyRejected ==
    \E i \in 1..Len(calls) :
        /\ calls[i].pc = "body"
        /\ calls[i].response[1].body.t = "malformed"
        /\ calls' = [calls EXCEPT ![i] = OnBodyError(calls[i])]
        /\ UNCHANGED callsLeft

---------------------------------------------------------------------------
(* Spec: up to MaxCalls calls, issued and answered in any order *)

Init == calls = << >> /\ callsLeft = MaxCalls

Next ==
    \/ random_2(Undefined)
    \/ \E o \in RandomOptions : random(o)
    \/ \E id \in FewIds : getById(id, Undefined)
    \/ \E id \in FewIds : getById_2(id, Undefined)
    \/ \E id \in FewIds : getInfo(id)
    \/ search(Undefined)
    \/ \E id \in FewIds : getSimilar(id, Undefined)
    \/ getSearchCompletion(Undefined)
    \/ getThemes
    \/ getThemes_2
    \/ getCount(Undefined)
    \/ fetchFulfilled
    \/ fetchRejected
    \/ bodyFulfilled
    \/ bodyRejected

Spec == Init /\ [][Next]_vars

---------------------------------------------------------------------------
(* SpecAnswered: calls of every operation over a transport that answers   *)
(* every request and every body read; a settled promise resumes the       *)
(* function that awaits it                                                 *)

InitAnswered == calls = << >> /\ callsLeft = AnswerCalls

NextAnswered ==
    \/ random_2(Undefined)
    \/ \E o \in RandomOptions : random(o)
    \/ \E id \in FewIds : getById(id, Undefined)
    \/ \E id \in FewIds : getById_2(id, Undefined)
    \/ \E id \in FewIds : getInfo(id)
    \/ search(Undefined)
    \/ \E id \in FewIds : getSimilar(id, Undefined)
    \/ getSearchCompletion(Undefined)
    \/ getThemes
    \/ getThemes_2
    \/ \E theme \in Maybe(Theme) : getCount(theme)
    \/ fetchFulfilled
    \/ fetchRejected
    \/ bodyFulfilled
    \/ bodyRejected

SpecAnswered ==
    /\ InitAnswered
    /\ [][NextAnswered]_vars
    /\ WF_vars(fetchFulfilled \/ fetchRejected)
    /\ WF_vars(bodyFulfilled \/ bodyRejected)

---------------------------------------------------------------------------
(* SpecBuild: the request of one call of the operations that take no      *)
(* search bundle, over their arguments                                     *)

InitBuild == calls = << >> /\ callsLeft = BuildCalls

NextBuild ==
    \/ \E o \in AllRandomOptions : random(o)
    \/ \E o \in AllRandomOptions : random_2(o)
    \/ \E id \in Ids, o \in AllGetByIdOptions : getById(id, o)
    \/ \E id \in Ids, size \in Maybe(Size) : getById_2(id, size)
    \/ \E id \in Ids : getInfo(id)
    \/ getThemes
    \/ getThemes_2
    \/ \E theme \in Maybe(Theme) : getCount(theme)

SpecBuild == InitBuild /\ [][NextBuild]_vars

---------------------------------------------------------------------------
(* SpecSearch: the request of one call of search, getSearchCompletion or  *)
(* getSimilar, over every option bundle                                    *)

NextSearch ==
    \/ \E o \in AllSearchOptions : search(o)
    \/ \E o \in AllSearchOptions : getSearchCompletion(o)
    \/ \E id \in FewIds, o \in AllSimilarOptions : getSimilar(id, o)

SpecSearch == InitBuild /\ [][NextSearch]_vars

---------------------------------------------------------------------------
(* SpecBody: one call whose success response has arrived, over every body *)

ImageCalls ==
    {Fetching("random", 1, [options |-> o], randomUrl(o, <<"0.25">>)) :
        o \in Maybe([size : {Undefined}, theme : {Undefined},
                     responseType : Maybe(ResponseType)])}
    \cup {Fetching("getById", 1, [id |-> <<"a1">>, options |-> o], getByIdUrl(<<"a1">>, o)) :
        o \in Maybe([size : {Undefined}, responseType : Maybe(ResponseType)])}
    \cup {Fetching("random", 2, [options |-> Undefined], random_2Url(Undefined)),
          Fetching("getById", 2, [id |-> <<"a1">>, size |-> Undefined],
                   getById_2Url(<<"a1">>, Undefined))}

JsonCalls ==
    {Fetching("getInfo", 1, [id |-> <<"a1">>], getInfoUrl(<<"a1">>)),
     Fetching("search", 1, [options |-> Undefined], searchUrl(Undefined)),
     Fetching("getSimilar", 1, [id |-> <<"a1">>, options |-> Undefined],
              getSimilarUrl(<<"a1">>, Undefined)),
     Fetching("getSearchCompletion", 1, [options |-> Undefined],
              getSearchCompletionUrl(Undefined)),
     Fetching("getThemes", 1, [none |-> Undefined], getThemesUrl),
     Fetching("getThemes", 2, [none |-> Undefined], getThemes_2Url),
     Fetching("getCount", 1, [theme |-> Undefined], getCountUrl(Undefined))}

InitBody ==
    /\ callsLeft = 0
    /\ \/ \E c \in ImageCalls, b \in ByteSeqs(MaxBytes) :
            calls = <<OnResponse(c, Ok(Bytes(b)))>>
       \/ \E c \in JsonCalls, b \in JsonBodies :
            calls = <<OnResponse(c, Ok(b))>>

NextBody == bodyFulfilled \/ bodyRejected

SpecBody == InitBody /\ [][NextBody]_vars

---------------------------------------------------------------------------
(* Reading a request URL back: path, and the name=value pairs of its query *)

\* the index of the first x in s from position i on, 0 if there is none
RECURSIVE IndexFrom(_, _, _)
IndexFrom(s, x, i) ==
    IF i > Len(s) THEN 0
    ELSE IF s[i] = x THEN i
    ELSE IndexFrom(s, x, i + 1)

IndexOf(s, x) == IndexFrom(s, x, 1)

\* the pieces of s between the occurrences of sep
RECURSIVE Split(_, _)
Split(s, sep) ==
    LET i == IndexOf(s, sep)
    IN  IF i = 0 THEN <<s>>
        ELSE <<SubSeq(s, 1, i - 1)>> \o Split(SubSeq(s, i + 1, Len(s)), sep)

DecodeLexeme(x) ==
    CASE x = "+"   -> " "
      [] x = "%26" -> "&"
      [] x = "%3D" -> "="
      [] x = "%3F" -> "?"
      [] x = "%23" -> "#"
      [] x = "%2B" -> "+"
      [] x = "%25" -> "%"
      [] OTHER     -> x

UrlDecode(s) == [i \in 1..Len(s) |-> DecodeLexeme(s[i])]

PathOf(url) ==
    IF IndexOf(url, "?") = 0 THEN url ELSE SubSeq(url, 1, IndexOf(url, "?") - 1)

QueryStringOf(url) ==
    IF IndexOf(url, "?") = 0 THEN << >> ELSE SubSeq(url, IndexOf(url, "?") + 1, Len(url))

PairOf(piece) ==
    LET i == IndexOf(piece, "=")
    IN  IF i = 0 THEN <<UrlDecode(piece), << >> >>
        ELSE <<UrlDecode(SubSeq(piece, 1, i - 1)),
               UrlDecode(SubSeq(piece, i + 1, Len(piece)))>>

\* the decoded <<name, value>> pairs of the query, in their order
QueryPairs(url) ==
    LET qs == QueryStringOf(url)
    IN  IF qs = << >> THEN << >>
        ELSE LET pieces == Split(qs, "&")
             IN  [k \in 1..Len(pieces) |-> PairOf(pieces[k])]

\* helpers over the pairs q of a query
KeysOf(q) == [k \in 1..Len(q) |-> q[k][1]]

Count(q, name) == Cardinality({k \in 1..Len(q) : q[k][1] = name})

Value(q, name) == q[CHOOSE k \in 1..Len(q) : q[k][1] = name][2]

Keys(url) == KeysOf(QueryPairs(url))

Occurrences(url, name) == Count(QueryPairs(url), name)

ValueOf(url, name) == Value(QueryPairs(url), name)

Contains(s, part) ==
    \E i \in 1..(Len(s) + 1) :
        /\ i + Len(part) - 1 <= Len(s)
        /\ SubSeq(s, i, i + Len(part) - 1) = part

Call(i) == calls[i]

Answered(c) == c.response # Undefined

---------------------------------------------------------------------------
(* C1 *)

\* how the failure message of each operation names it
OperationPhrase(op) ==
    CASE op \in {"random", "getById"} -> "Error fetching cat image: "
      [] op = "getInfo" -> "Error fetching cat info: "
      [] op = "search" -> "Error searching for cats: "
      [] op = "getSimilar" -> "Error fetching similar cats: "
      [] op = "getSearchCompletion" -> "Error fetching completion: "
      [] op = "getThemes" -> "Error fetching themes: "
      [] op = "getCount" -> "Error fetching count: "

\* C1: a call whose response has a non-success status has failed, it holds
\* no resolved value, and the message of its error names the operation and
\* contains the status text of the response.
C1_NonSuccessStatusFails ==
    \A i \in 1..Len(calls) :
        (Answered(Call(i)) /\ ~Call(i).response[1].ok) =>
            /\ Call(i).pc = "rejected"
            /\ Call(i).outcome # Undefined
            /\ Call(i).outcome[1].t = "Error"
            /\ Head(Call(i).outcome[1].message) = OperationPhrase(Call(i).op)
            /\ Contains(Tail(Call(i).outcome[1].message), Call(i).response[1].statusText)

C1_Witness ==
    \E i \in 1..Len(calls) :
        /\ Call(i).op = "search"
        /\ Answered(Call(i))
        /\ ~Call(i).response[1].ok
        /\ Call(i).response[1].statusText = <<"Not Found">>
        /\ Call(i).pc = "rejected"

---------------------------------------------------------------------------
(* C2 *)

SearchFields == {"query", "limit", "from", "descending", "theme", "size"}

BundleOf(c) ==
    IF c.args.options = Undefined THEN EmptySearchOptions ELSE c.args.options[1]

\* C2: in the request of search and getSearchCompletion no unset field is a
\* key of the query string; descending: false adds no descending key, and
\* descending: true adds exactly the pair descending=true.
C2_UnsetFieldsOmitted ==
    \A i \in 1..Len(calls) :
        Call(i).op \in {"search", "getSearchCompletion"} =>
            LET q == QueryPairs(Call(i).url)
                o == BundleOf(Call(i))
            IN  /\ \A f \in SearchFields : o[f] = Undefined => Count(q, <<f>>) = 0
                /\ o.descending = Some(FALSE) => Count(q, <<"descending">>) = 0
                /\ o.descending = Some(TRUE) =>
                       /\ Count(q, <<"descending">>) = 1
                       /\ Value(q, <<"descending">>) = <<"true">>
                       /\ Contains(QueryStringOf(Call(i).url), <<"descending", "=", "true">>)

C2_Witness ==
    \E i \in 1..Len(calls) :
        /\ Call(i).op = "getSearchCompletion"
        /\ Call(i).args.options # Undefined
        /\ BundleOf(Call(i)).descending = Some(FALSE)
        /\ BundleOf(Call(i)).query = Undefined
        /\ BundleOf(Call(i)).limit = Some(25)
        /\ Keys(Call(i).url) = << <<"limit">> >>

---------------------------------------------------------------------------
(* C3 *)

\* the decimal value of a string of digit lexemes, -1 if it is not one
DigitValue(x) == CHOOSE d \in 0..9 : Digit[d + 1] = x

RECURSIVE DecimalValue(_)
DecimalValue(s) ==
    IF s = << >> THEN 0
    ELSE 10 * DecimalValue(SubSeq(s, 1, Len(s) - 1)) + DigitValue(s[Len(s)])

IsDecimalOf(s, n) ==
    /\ s # << >>
    /\ \A k \in 1..Len(s) : \E d \in 0..9 : Digit[d + 1] = s[k]
    /\ Len(s) > 1 => s[1] # "0"
    /\ DecimalValue(s) = n

\* the option bundle of a search, getSearchCompletion or getSimilar call,
\* with the fields getSimilar does not have left unset
FullBundleOf(c) ==
    IF c.args.options = Undefined THEN EmptySearchOptions
    ELSE IF c.op = "getSimilar"
    THEN [EmptySearchOptions EXCEPT !.limit = c.args.options[1].limit,
                                    !.size = c.args.options[1].size]
    ELSE c.args.options[1]

BuilderOps == {"search", "getSearchCompletion", "getSimilar"}

\* the pair a given field is to contribute
PairWritten(q, o, f) ==
    /\ Count(q, <<f>>) = 1
    /\ IF f = "limit" THEN IsDecimalOf(Value(q, <<f>>), o[f][1])
       ELSE IF f = "descending" THEN Value(q, <<f>>) = <<"true">>
       ELSE Value(q, <<f>>) = o[f][1]

\* C3 as stated: every field that is given, limit = 0 and an empty query or
\* from included, contributes exactly one pair, and no key occurs twice.
C3_EveryGivenFieldWritten ==
    \A i \in 1..Len(calls) :
        Call(i).op \in BuilderOps =>
            LET q == QueryPairs(Call(i).url)
                o == FullBundleOf(Call(i))
            IN  /\ \A f \in SearchFields \ {"descending"} :
                       o[f] # Undefined => PairWritten(q, o, f)
                /\ \A f \in SearchFields : Count(q, <<f>>) <= 1

Truthy(o, f) ==
    CASE f = "limit" -> TruthyNumber(o[f])
      [] f = "descending" -> TruthyBoolean(o[f])
      [] OTHER -> TruthyString(o[f])

\* C3 (amended): every field that is given and truthy (a non-empty string,
\* a limit other than 0, descending: true) contributes exactly one pair,
\* limit as its decimal digits; a field that is unset or falsy (limit = 0,
\* an empty query or from, descending: false) contributes none; the query
\* string has no other key and no key twice.
C3_TruthyFieldsWritten ==
    \A i \in 1..Len(calls) :
        Call(i).op \in BuilderOps =>
            LET q == QueryPairs(Call(i).url)
                o == FullBundleOf(Call(i))
            IN  /\ \A f \in SearchFields :
                       IF Truthy(o, f) THEN PairWritten(q, o, f) ELSE Count(q, <<f>>) = 0
                /\ \A k \in 1..Len(q) : \E f \in SearchFields : q[k][1] = <<f>>

C3_Witness ==
    \E i \in 1..Len(calls) :
        /\ Call(i).op = "search"
        /\ Call(i).args.options # Undefined
        /\ BundleOf(Call(i)).limit = Some(0)
        /\ BundleOf(Call(i)).query = Some(<< >>)
        /\ BundleOf(Call(i)).from = Some(<<"a1">>)
        /\ BundleOf(Call(i)).descending = Undefined
        /\ BundleOf(Call(i)).theme = Undefined
        /\ BundleOf(Call(i)).size = Undefined
        /\ QueryPairs(Call(i).url) = << << <<"from">>, <<"a1">> >> >>

---------------------------------------------------------------------------
(* C4 *)

RequestedSize(c) == IF c.def = 1 THEN Field(c.args.options, "size") ELSE c.args.size

\* C4: the request of getById carries exactly one query parameter, size,
\* whose value is the requested Size unmodified, or "1024" when none is given.
C4_SizePassedThrough ==
    \A i \in 1..Len(calls) :
        Call(i).op = "getById" =>
            LET q == QueryPairs(Call(i).url)
            IN  /\ KeysOf(q) = << <<"size">> >>
                /\ RequestedSize(Call(i)) # Undefined =>
                       Value(q, <<"size">>) = RequestedSize(Call(i))[1]
                /\ RequestedSize(Call(i)) = Undefined => Value(q, <<"size">>) = <<"1024">>

C4_Witness ==
    \E i \in 1..Len(calls) :
        /\ Call(i).op = "getById"
        /\ Call(i).def = 1
        /\ RequestedSize(Call(i)) = Some(<<"16">>)
        /\ QueryStringOf(Call(i).url) = <<"size", "=", "16">>

---------------------------------------------------------------------------
(* C5 *)

\* C5 as stated: two consecutive calls of random with the same options have
\* different requests: each carries an rnd parameter and the two tokens differ.
C5_ConsecutiveRandomsDiffer ==
    \A i \in 1..(Len(calls) - 1) :
        (/\ Call(i).op = "random"
         /\ Call(i + 1).op = "random"
         /\ Call(i).def = Call(i + 1).def
         /\ Call(i).args.options = Call(i + 1).args.options) =>
            /\ Occurrences(Call(i).url, <<"rnd">>) = 1
            /\ Occurrences(Call(i + 1).url, <<"rnd">>) = 1
            /\ ValueOf(Call(i).url, <<"rnd">>) # ValueOf(Call(i + 1).url, <<"rnd">>)
            /\ Call(i).url # Call(i + 1).url

---------------------------------------------------------------------------
(* C6 *)

Base64Index(x) == CHOOSE n \in 0..63 : Base64Alphabet[n + 1] = x

\* the bytes of one group of four base64 characters
DecodeGroup(g) ==
    LET v1 == Base64Index(g[1])
        v2 == Base64Index(g[2])
        b1 == v1 * 4 + v2 \div 16
    IN  IF g[3] = "=" THEN <<b1>>
        ELSE LET v3 == Base64Index(g[3])
                 b2 == (v2 % 16) * 16 + v3 \div 4
             IN  IF g[4] = "=" THEN <<b1, b2>>
                 ELSE <<b1, b2, (v3 % 4) * 64 + Base64Index(g[4])>>

RECURSIVE Base64Decode(_)
Base64Decode(text) ==
    IF Len(text) < 4 THEN << >>
    ELSE DecodeGroup(SubSeq(text, 1, 4)) \o Base64Decode(SubSeq(text, 5, Len(text)))

DataUrlPrefix == "data:image/jpeg;base64,"

ImageBytes(c) == c.response[1].body.bytes

ShapedAs(c, type) ==
    /\ c.op \in ImageOps
    /\ c.def = 1
    /\ c.pc = "resolved"
    /\ Field(c.args.options, "responseType") = Some(type)

\* C6: decoding the 'base64' result of an image call gives back the bytes
\* of the response, and so does decoding the 'dataUrl' result once its
\* prefix data:image/jpeg;base64, is stripped.
C6_Base64RoundTrip ==
    \A i \in 1..Len(calls) :
        /\ ShapedAs(Call(i), "base64") =>
               /\ Call(i).outcome[1].t = "string"
               /\ Base64Decode(Call(i).outcome[1].s) = ImageBytes(Call(i))
        /\ ShapedAs(Call(i), "dataUrl") =>
               /\ Call(i).outcome[1].t = "string"
               /\ Head(Call(i).outcome[1].s) = DataUrlPrefix
               /\ Base64Decode(Tail(Call(i).outcome[1].s)) = ImageBytes(Call(i))

C6_Witness ==
    \E i \in 1..Len(calls) :
        /\ ShapedAs(Call(i), "dataUrl")
        /\ ImageBytes(Call(i)) = <<255, 0>>
        /\ Call(i).outcome[1].s = <<DataUrlPrefix, "/", "w", "A", "=">>

---------------------------------------------------------------------------
(* C7 *)

\* text is the standard padded base64 text of bytes
IsBase64Of(text, bytes) ==
    /\ Len(text) = 4 * ((Len(bytes) + 2) \div 3)
    /\ \A k \in 1..Len(text) :
           \/ \E n \in 0..63 : Base64Alphabet[n + 1] = text[k]
           \/ text[k] = "=" /\ k > Len(text) - ((3 - (Len(bytes) % 3)) % 3)
    /\ Base64Decode(text) = bytes
    /\ Len(bytes) % 3 = 1 => Base64Index(text[Len(text) - 2]) % 16 = 0
    /\ Len(bytes) % 3 = 2 => Base64Index(text[Len(text) - 1]) % 4 = 0

RequestedType(c) ==
    IF c.def = 1 THEN Field(c.args.options, "responseType") ELSE Undefined

IsJpegBlobOf(r, bytes) ==
    /\ r.t = "Blob"
    /\ r.type = <<"image/jpeg">>
    /\ Len(r.parts) = 1
    /\ r.parts[1].t = "ArrayBuffer"
    /\ r.parts[1].bytes = bytes

\* C7: an image call resolves, for no responseType and for 'blob', with a
\* Blob of the response's bytes typed image/jpeg; for 'arrayBuffer' with
\* the bytes themselves; for 'base64' with their base64 text; for 'dataUrl'
\* with data:image/jpeg;base64, followed by that base64 text.
C7_ResponseShapes ==
    \A i \in 1..Len(calls) :
        (Call(i).op \in ImageOps /\ Call(i).pc = "resolved") =>
            LET r == Call(i).outcome[1]
                type == RequestedType(Call(i))
            IN  /\ type \in {Undefined, Some("blob")} => IsJpegBlobOf(r, ImageBytes(Call(i)))
                /\ type = Some("arrayBuffer") =>
                       r.t = "ArrayBuffer" /\ r.bytes = ImageBytes(Call(i))
                /\ type = Some("base64") =>
                       r.t = "string" /\ IsBase64Of(r.s, ImageBytes(Call(i)))
                /\ type = Some("dataUrl") =>
                       /\ r.t = "string"
                       /\ r.s # << >>
                       /\ Head(r.s) = DataUrlPrefix
                       /\ IsBase64Of(Tail(r.s), ImageBytes(Call(i)))

C7_Witness ==
    \E i \in 1..Len(calls) :
        /\ Call(i).op = "getById"
        /\ Call(i).def = 1
        /\ Call(i).args.options # Undefined
        /\ RequestedType(Call(i)) = Undefined
        /\ Call(i).pc = "resolved"
        /\ ImageBytes(Call(i)) = <<255, 1, 127>>
        /\ Call(i).outcome[1].t = "Blob"

---------------------------------------------------------------------------
(* C8 *)

JsonOps == {"getInfo", "search", "getSimilar", "getSearchCompletion", "getThemes", "getCount"}

ExtractedField(op) ==
    CASE op = "getThemes" -> "themes"
      [] op = "getCount" -> "count"
      [] op = "getSearchCompletion" -> "completion"

JsonBody(c) == c.response[1].body

\* C8: on a success response getThemes, getCount and getSearchCompletion
\* resolve with the value of the field themes, count and completion of the
\* decoded body (undefined when the body has no such field), and getInfo,
\* search and getSimilar with the decoded body itself; a body that is a JSON
\* object never makes the call fail.
C8_JsonResults ==
    \A i \in 1..Len(calls) :
        (Call(i).op \in JsonOps /\ Answered(Call(i)) /\ Call(i).response[1].ok) =>
            /\ Call(i).pc = "resolved" =>
                   IF Call(i).op \in {"getInfo", "search", "getSimilar"}
                   THEN Call(i).outcome[1] = JsonBody(Call(i))
                   ELSE IF /\ JsonBody(Call(i)).t = "object"
                           /\ ExtractedField(Call(i).op) \in DOMAIN JsonBody(Call(i)).fields
                   THEN Call(i).outcome[1] =
                            JsonBody(Call(i)).fields[ExtractedField(Call(i).op)]
                   ELSE Call(i).outcome[1].t = "undefined"
            /\ JsonBody(Call(i)).t = "object" => Call(i).pc \in {"body", "resolved"}

C8_Witness ==
    \E i \in 1..Len(calls) :
        /\ Call(i).op = "getCount"
        /\ Call(i).pc = "resolved"
        /\ JsonBody(Call(i)) = CountThemesCompletion
        /\ Call(i).outcome[1].t = "number"
        /\ Call(i).outcome[1].n = 42

---------------------------------------------------------------------------
(* C9 *)

\* the path of the endpoint table
EndpointPath(c) ==
    CASE c.op = "random" -> <<"/cat">>
      [] c.op = "getById" -> <<"/cat/">> \o c.args.id
      [] c.op = "getInfo" -> <<"/cat/info/">> \o c.args.id
      [] c.op = "search" -> <<"/cat/search">>
      [] c.op = "getSimilar" -> <<"/cat/similar/">> \o c.args.id
      [] c.op = "getSearchCompletion" -> <<"/cat/search-completion">>
      [] c.op = "getThemes" -> <<"/cat/theme-list">>
      [] c.op = "getCount" -> <<"/cat/count">>

\* C9 as stated: every request goes to the path the endpoint table gives
\* its operation, and getCount has the query theme=<theme> exactly when a
\* theme is given.
C9_EndpointTable ==
    \A i \in 1..Len(calls) :
        /\ PathOf(Call(i).url) = <<"https://api.ai-cats.net/v1">> \o EndpointPath(Call(i))
        /\ Call(i).op = "getCount" =>
               IF Call(i).args.theme # Undefined
               THEN QueryPairs(Call(i).url) = << << <<"theme">>, Call(i).args.theme[1] >> >>
               ELSE IndexOf(Call(i).url, "?") = 0

---------------------------------------------------------------------------
(* C10 *)

ListedOrder == <<"size", "theme", "query", "limit", "from", "descending">>

SetOrder == <<"query", "limit", "from", "descending", "theme", "size">>

IsWritten(q, f) == \E k \in 1..Len(q) : q[k][1] = <<f>>

FieldKeys(fields) == [k \in 1..Len(fields) |-> <<fields[k]>>]

\* C10 as stated: the keys of the query string of search and
\* getSearchCompletion stand in the order size, theme, query, limit, from,
\* descending.
C10_KeysInListedOrder ==
    \A i \in 1..Len(calls) :
        Call(i).op \in {"search", "getSearchCompletion"} =>
            LET q == QueryPairs(Call(i).url)
            IN  KeysOf(q) = FieldKeys(SelectSeq(ListedOrder, LAMBDA f : IsWritten(q, f)))

\* C10 (amended): the keys of the query string of search and
\* getSearchCompletion are those of the truthy fields of the bundle, in the
\* order query, limit, from, descending, theme, size.
C10_KeysInSetOrder ==
    \A i \in 1..Len(calls) :
        Call(i).op \in {"search", "getSearchCompletion"} =>
            Keys(Call(i).url) =
                FieldKeys(SelectSeq(SetOrder, LAMBDA f : Truthy(BundleOf(Call(i)), f)))

C10_Witness ==
    \E i \in 1..Len(calls) :
        /\ Call(i).op = "search"
        /\ \A f \in SearchFields : Truthy(BundleOf(Call(i)), f)
        /\ Keys(Call(i).url) = FieldKeys(SetOrder)

---------------------------------------------------------------------------
(* C11 *)

Ended(c) == c.pc \in {"resolved", "rejected"}

\* one request and at most one body read; a call is suspended only while an
\* answer is outstanding; it resolves only from a success response whose
\* body was read; without a response it ends only in the transport's error
OneRequestPerCall ==
    \A i \in 1..Len(calls) :
        /\ Call(i).fetches = 1
        /\ Len(Call(i).reads) <= 1
        /\ Call(i).pc = "fetch" => ~Answered(Call(i)) /\ Call(i).outcome = Undefined
        /\ Call(i).pc = "body" =>
               /\ Answered(Call(i)) /\ Call(i).response[1].ok
               /\ Len(Call(i).reads) = 1 /\ Call(i).outcome = Undefined
        /\ Ended(Call(i)) => Call(i).outcome # Undefined
        /\ Call(i).pc = "resolved" =>
               /\ Answered(Call(i)) /\ Call(i).response[1].ok
               /\ Len(Call(i).reads) = 1
        /\ (Ended(Call(i)) /\ ~Answered(Call(i))) =>
               /\ Call(i).pc = "rejected"
               /\ Call(i).outcome[1].t = "TypeError"
               /\ Call(i).outcome[1].message = <<"fetch failed">>

\* a call that has ended does nothing more, and no call is ever withdrawn
EndedCallsRest ==
    /\ Len(calls') >= Len(calls)
    /\ \A i \in 1..Len(calls) : Ended(calls[i]) => calls'[i] = calls[i]

\* C11: every call opens exactly one request in every outcome and never a
\* second one; over a transport that answers, every call ends, resolved or
\* rejected, and stays as it ended; a call whose fetch was rejected is
\* rejected with that error, never resolved.
C11_OneRequestThenEnds ==
    /\ []OneRequestPerCall
    /\ [][EndedCallsRest]_vars
    /\ \A i \in 1..AnswerCalls :
           [](Len(calls) >= i => <>(Len(calls) >= i /\ Ended(calls[i])))

\* a call has ended rejected by the transport's failure after its one request
C11_Witness ==
    \E i \in 1..Len(calls) :
        /\ Call(i).pc = "rejected" /\ ~Answered(Call(i))
        /\ Call(i).outcome[1].t = "TypeError"
        /\ Call(i).fetches = 1
        /\ Call(i).reads = << >>

---------------------------------------------------------------------------
(* C12 *)

\* the pairs of a query other than the rnd token
WithoutRnd(q) == SelectSeq(q, LAMBDA p : p[1] # <<"rnd">>)

SameInvocation(c, d) == c.op = d.op /\ c.def = d.def /\ c.args = d.args

\* the request is a function of the call's own arguments and rnd token, the
\* outcome a function of the call's own arguments and response
OwnArgumentsAndResponseOnly ==
    \A i, j \in 1..Len(calls) :
        (i < j /\ SameInvocation(Call(i), Call(j))) =>
            /\ PathOf(Call(i).url) = PathOf(Call(j).url)
            /\ WithoutRnd(QueryPairs(Call(i).url)) = WithoutRnd(QueryPairs(Call(j).url))
            /\ (Call(i).op # "random" \/ Call(i).def # 1) => Call(i).url = Call(j).url
            /\ (Call(i).response = Call(j).response /\ Ended(Call(i)) /\ Ended(Call(j))) =>
                   /\ Call(i).pc = Call(j).pc
                   /\ Call(i).outcome = Call(j).outcome

\* a step issues one call or moves one call, and leaves every other call,
\* and the request of every call, as it was
OneCallPerStep ==
    /\ Len(calls') >= Len(calls)
    /\ \A i \in 1..Len(calls) :
           /\ SameInvocation(calls'[i], calls[i])
           /\ calls'[i].url = calls[i].url
           /\ Answered(calls[i]) => calls'[i].response = calls[i].response
           /\ Len(calls') > Len(calls) => calls'[i] = calls[i]
    /\ \A i, j \in 1..Len(calls) :
           (i # j /\ calls'[i] # calls[i]) => calls'[j] = calls[j]

\* C12: calls share no state: a call's request depends on its own arguments
\* (and its own rnd token) alone, its outcome on its own arguments and
\* response alone, and in every interleaving a request or response event of
\* one call changes nothing of any other call.
C12_CallsIndependent ==
    /\ []OwnArgumentsAndResponseOnly
    /\ [][OneCallPerStep]_vars

\* two calls of the same operation with the same arguments, issued together:
\* one has failed on its response, the other has resolved
C12_Witness ==
    \E i, j \in 1..Len(calls) :
        /\ i # j
        /\ SameInvocation(Call(i), Call(j))
        /\ Call(i).pc = "rejected" /\ Answered(Call(i))
        /\ Call(j).pc = "resolved"

---------------------------------------------------------------------------
(* C13 *)

\* C13: a body read (arrayBuffer or json) has been started only on a
\* response whose status is a success; a call whose response has a
\* non-success status has read no body, and it holds the status error
\* alone: no shaped image and no value taken from a JSON body.
C13_StatusCheckBeforeBodyRead ==
    \A i \in 1..Len(calls) :
        /\ Call(i).reads # << >> =>
               /\ Answered(Call(i)) /\ Call(i).response[1].ok
               /\ Call(i).reads = << IF Call(i).op \in {"random", "getById"}
                                     THEN "arrayBuffer" ELSE "json" >>
        /\ (Answered(Call(i)) /\ Call(i).response[1].ok) => Call(i).reads # << >>
        /\ (Answered(Call(i)) /\ ~Call(i).response[1].ok) =>
               /\ Call(i).reads = << >>
               /\ Call(i).pc = "rejected"
               /\ Call(i).outcome[1].t = "Error"

\* one call was refused on its status and has read no body, another has
\* read the body of its success response
C13_Witness ==
    \E i, j \in 1..Len(calls) :
        /\ Answered(Call(i)) /\ ~Call(i).response[1].ok
        /\ Call(i).pc = "rejected" /\ Call(i).reads = << >>
        /\ Answered(Call(j)) /\ Call(j).response[1].ok
        /\ Call(j).reads = <<"json">>

=============================================================================
